---- MODULE Spec2Model ----
(***************************************************************************)
(* Query resolution pipeline of geoai_osm_llm: src/pipeline.py (run_query, *)
(* simple_place_heuristic), src/llm/ollama_client.py (call_ollama_json,    *)
(* _parse_json_from_content), src/query/llm_parser.py (llm_parse_query,    *)
(* validate_llm_response) and src/rag/retriever.py (pick_tag_from_chunks). *)
(*                                                                         *)
(* Text is a sequence of tokens.  A token is a run of characters that the  *)
(* code never splits: a brace, a quote, a fence, a blank, a word.  Python  *)
(* values are records [t |-> type, v |-> payload].                         *)
(***************************************************************************)
EXTENDS Integers, Sequences, FiniteSets, TLC

VARIABLES
    content,    \* _parse_json_from_content: the argument
    parsed,     \* _parse_json_from_content: the LLMResult returned
    pcParse,    \* "call" before the call, "returned" after it
    evidence,   \* pick_tag_from_chunks: the argument
    picked,     \* pick_tag_from_chunks: what it returned or raised
    pcVote,     \* "call" before the call, "returned" after it
    pc,         \* run_query: the step about to run, "done" after a return,
                \* "raised" after an exception left run_query
    query,      \* run_query: the query argument
    chunks,     \* run_query: chunks
    oracle,     \* what the oracle call of this run met
    llm_res,    \* run_query: llm_res
    llm_ok,     \* run_query: llm_ok
    place,      \* run_query: place
    key,        \* run_query: key
    value,      \* run_query: value
    placeSource, \* which branch of step 3 set place
    tagSource,  \* which branch of step 4 set key and value
    calls,      \* the collaborators invoked so far, in order
    exc,        \* the step an exception escaped from, "none" if none
    result,     \* the dict run_query returned
    outcomes,   \* how each invocation of calls ended: "ok" or "raised"
    round,      \* 1 in a run; 2 in the second run of a pair of runs
    first,      \* in the second run of a pair: what the first run did
    request,    \* call_ollama_json: what the request to the oracle met
    reply,      \* call_ollama_json: the LLMResult returned, or raised
    pcCall,     \* "call" before the call, "returned" after it
    argData,    \* validate_llm_response: the argument
    valid,      \* validate_llm_response: the value returned
    pcValidate, \* "call" before the call, "returned" after it
    selfMeta,   \* FaissRetriever.retrieve: self.meta
    argK,       \* FaissRetriever.retrieve: the argument k
    searchHits, \* FaissRetriever.retrieve: what index.search returned
    results,    \* FaissRetriever.retrieve: the list returned
    pcRetrieve, \* "call" before the call, "returned" after it
    utterance,  \* simple_place_heuristic: the argument
    span,       \* simple_place_heuristic: the value returned
    pcHeuristic, \* "call" before the call, "returned" after it
    files,      \* the output directory: what each file written holds
    procPc,     \* of each of two executions of run_query: the step about to run
    resolved,   \* of each execution: place, key, value after step 5
    rows,       \* of each execution: what rows was extracted of
    procResult  \* of each execution: the dict returned

parseVars == <<content, parsed, pcParse>>
voteVars == <<evidence, picked, pcVote>>
runVars ==
    <<pc, query, chunks, oracle, llm_res, llm_ok, place, key, value,
      placeSource, tagSource, calls, exc, result, outcomes, round, first>>
callVars == <<request, reply, pcCall>>
validateVars == <<argData, valid, pcValidate>>
retrieveVars == <<selfMeta, argK, searchHits, results, pcRetrieve>>
heuristicVars == <<utterance, span, pcHeuristic>>
sharedVars == <<files, procPc, resolved, rows, procResult>>
pureVars == <<callVars, validateVars, retrieveVars, heuristicVars, sharedVars>>
vars == <<parseVars, voteVars, runVars, pureVars>>

-----------------------------------------------------------------------------
(* Python values *)

Str(s) == [t |-> "str", v |-> s]
None == [t |-> "none", v |-> <<>>]
Num(s) == [t |-> "num", v |-> s]
Bool(s) == [t |-> "bool", v |-> s]
List(s) == [t |-> "list", v |-> s]
Dict(s) == [t |-> "dict", v |-> s]
EmptyDict == Dict(<<>>)

\* bool(x), as "if x:" and "not x" evaluate it
Truthy(x) ==
    CASE x.t = "str" -> x.v # <<>>
      [] x.t = "num" -> x.v # <<"0">>
      [] x.t = "bool" -> x.v = <<"true">>
      [] x.t = "list" -> x.v # <<>>
      [] x.t = "dict" -> x.v # <<>>
      [] OTHER -> FALSE

\* isinstance(x, str), isinstance(x, dict)
IsStr(x) == x.t = "str"
IsDict(x) == x.t = "dict"

-----------------------------------------------------------------------------
(* Tokens of an oracle response *)

LBrace == "{"
RBrace == "}"
Quote == "<dquote>"      \* the character U+0022
Blank == " "
FenceJson == "<fence>json"  \* three backquotes and the word json
Fence == "<fence>"          \* three backquotes
Digit == "1"
Prose == "blah"
FlatBody == "a:1"

\* complete JSON literals that are one token
AtomTokens == {"0", "5", "42", "null", "true", "[]"}

AtomValue(tok) ==
    CASE tok = "null" -> None
      [] tok = "true" -> Bool(<<"true">>)
      [] tok = "[]" -> List(<<>>)
      [] OTHER -> Num(<<tok>>)

-----------------------------------------------------------------------------
(* Objects the oracle may answer with.  A body token stands for the member *)
(* list between the braces of a JSON object; Members gives its members.    *)

Absent == [t |-> "absent", v |-> <<>>]

\* a "tag" sub-mapping with the given members
TagDict(k, val) ==
    [t |-> "dict",
     v |-> (IF k = Absent THEN <<>> ELSE <<"key">>)
           \o (IF val = Absent THEN <<>> ELSE <<"value">>),
     key |-> k, value |-> val]

Obj(p, tg) == [place |-> p, tag |-> tg, confidence |-> Absent, explanation |-> Absent]

Malmo == Str(<<"Malmo">>)   \* written with o-umlaut in the sources
Amenity == Str(<<"amenity">>)
Cafe == Str(<<"cafe">>)
Highway == Str(<<"highway">>)
BusStop == Str(<<"bus_stop">>)

\* the members an object may have, each with the text that writes it; the
\* empty text writes a member that is missing
PlaceMembers ==
    {<<"place:Malmo", Malmo>>, <<"place:null", None>>, <<"", Absent>>,
     <<"place:<empty>", Str(<<>>)>>, <<"place:42", Num(<<"42">>)>>,
     <<"place:0", Num(<<"0">>)>>}

TagMembers ==
    {<<"tag:{key:amenity,value:cafe}", TagDict(Amenity, Cafe)>>,
     <<"tag:{key:highway,value:bus_stop}", TagDict(Highway, BusStop)>>,
     <<"", Absent>>,
     <<"tag:null", None>>,
     <<"tag:<text>", Str(<<"amenity=cafe">>)>>,
     <<"tag:{}", TagDict(Absent, Absent)>>,
     <<"tag:{key:amenity}", TagDict(Amenity, Absent)>>,
     <<"tag:{key:<empty>,value:cafe}", TagDict(Str(<<>>), Cafe)>>,
     <<"tag:{key:amenity,value:5}", TagDict(Amenity, Num(<<"5">>))>>,
     <<"tag:{key:amenity,value:null}", TagDict(Amenity, None)>>}

ConfidenceMembers ==
    {<<"", Absent>>, <<"confidence:0.9", Num(<<"0.9">>)>>,
     <<"confidence:<text>", Str(<<"high">>)>>, <<"confidence:null", None>>}

ExplanationMembers ==
    {<<"", Absent>>, <<"explanation:<text>", Str(<<"because">>)>>,
     <<"explanation:7", Num(<<"7">>)>>}

\* two member texts with the comma between them
Join(x, y) == IF x = "" THEN y ELSE IF y = "" THEN x ELSE x \o "," \o y

\* every object with one choice of each member, but the one with no member
BodyEntries ==
    {<<Join(Join(Join(p[1], tg[1]), cf[1]), ex[1]),
       [place |-> p[2], tag |-> tg[2], confidence |-> cf[2], explanation |-> ex[2]]>> :
        p \in PlaceMembers, tg \in TagMembers,
        cf \in ConfidenceMembers, ex \in ExplanationMembers}
    \ {<<"", Obj(Absent, Absent)>>}

\* FlatBody writes an object none of whose members the pipeline reads
BodyTable ==
    [b \in {e[1] : e \in BodyEntries} \cup {FlatBody} |->
        IF b = FlatBody THEN Obj(Absent, Absent)
        ELSE (CHOOSE e \in BodyEntries : e[1] = b)[2]]

BodyTokens == DOMAIN BodyTable

\* the members of a parsed object; {} has none
Members(d) == IF d.v = <<>> THEN Obj(Absent, Absent) ELSE BodyTable[d.v[1]]

\* dict.get(name) with the default None
DictGet(member) == IF member = Absent THEN None ELSE member

-----------------------------------------------------------------------------
(* json.loads on a token sequence *)

IsBlank(tok) == tok = Blank

RECURSIVE LStrip(_)
LStrip(s) == IF s # <<>> /\ IsBlank(Head(s)) THEN LStrip(Tail(s)) ELSE s

RECURSIVE RStrip(_)
RStrip(s) ==
    IF s # <<>> /\ IsBlank(s[Len(s)]) THEN RStrip(SubSeq(s, 1, Len(s) - 1)) ELSE s

\* str.strip()
Strip(s) == RStrip(LStrip(s))

Inner(u) == SubSeq(u, 2, Len(u) - 1)

NoJson == [ok |-> FALSE, val |-> None]
Json(x) == [ok |-> TRUE, val |-> x]

\* json.loads(s): ok = FALSE stands for json.JSONDecodeError
JsonLoads(s) ==
    LET u == Strip(s) IN
    IF u = <<>> THEN NoJson
    ELSE IF Len(u) = 1 /\ u[1] \in AtomTokens THEN Json(AtomValue(u[1]))
    ELSE IF \A i \in 1..Len(u) : u[i] = Digit THEN Json(Num(u))
    ELSE IF /\ Len(u) >= 2
            /\ u[1] = Quote
            /\ u[Len(u)] = Quote
            /\ \A i \in 2..(Len(u) - 1) : u[i] \notin ({Quote} \cup BodyTokens)
         THEN Json(Str(Inner(u)))
    ELSE IF Len(u) >= 2 /\ u[1] = LBrace /\ u[Len(u)] = RBrace
         THEN LET m == Strip(Inner(u)) IN
              IF m = <<>> THEN Json(EmptyDict)
              ELSE IF Len(m) = 1 /\ m[1] \in BodyTokens THEN Json(Dict(m))
              \* "a":1 followed by digits is the member "a":11...
              ELSE IF m[1] = FlatBody /\ \A i \in 2..Len(m) : m[i] = Digit
                   THEN Json(Dict(m))
              ELSE NoJson
    ELSE NoJson

-----------------------------------------------------------------------------
(* _parse_json_from_content *)

\* str.find / str.rfind, 0 for Python's -1 (positions count from 1)
Find(s, tok) ==
    IF \E i \in 1..Len(s) : s[i] = tok
    THEN CHOOSE i \in 1..Len(s) : s[i] = tok /\ \A j \in 1..(i - 1) : s[j] # tok
    ELSE 0

RFind(s, tok) ==
    IF \E i \in 1..Len(s) : s[i] = tok
    THEN CHOOSE i \in 1..Len(s) : s[i] = tok /\ \A j \in (i + 1)..Len(s) : s[j] # tok
    ELSE 0

\* the closing fence of the pattern is found at a fence and at the head of
\* a fence marked json
OpensFence(tok) == tok = Fence \/ tok = FenceJson

NoMatch == [found |-> FALSE, group |-> <<>>]

\* re.search(the fenced-json pattern, content, re.DOTALL)
JsonBlockMatch(c) ==
    LET open == Find(c, FenceJson) IN
    IF open = 0 \/ ~(\E j \in (open + 1)..Len(c) : OpensFence(c[j])) THEN NoMatch
    ELSE LET close == CHOOSE j \in (open + 1)..Len(c) :
                          /\ OpensFence(c[j])
                          /\ \A h \in (open + 1)..(j - 1) : ~OpensFence(c[h])
         IN [found |-> TRUE, group |-> Strip(SubSeq(c, open + 1, close - 1))]

LLMResult(o, d, r, n) == [ok |-> o, data |-> d, raw |-> r, tier |-> n]

Tier1(c) == JsonLoads(Strip(c))

Tier2(c) ==
    LET m == JsonBlockMatch(c) IN IF m.found THEN JsonLoads(m.group) ELSE NoJson

Tier3(c) ==
    LET start == Find(c, LBrace)
        end == RFind(c, RBrace)
    IN IF start # 0 /\ end # 0 /\ end > start
       THEN JsonLoads(SubSeq(c, start, end))
       ELSE NoJson

\* tiers 2 and 3 tried in the opposite order
ParseJsonBraceSpanFirst(c) ==
    IF Tier1(c).ok THEN LLMResult(TRUE, Tier1(c).val, c, 1)
    ELSE IF Tier3(c).ok THEN LLMResult(TRUE, Tier3(c).val, c, 3)
    ELSE IF Tier2(c).ok THEN LLMResult(TRUE, Tier2(c).val, c, 2)
    ELSE LLMResult(FALSE, EmptyDict, c, 0)

\* raw taken from the trimmed text that tier 1 parses
ParseJsonRawTrimmed(c) ==
    IF Tier1(c).ok THEN LLMResult(TRUE, Tier1(c).val, Strip(c), 1)
    ELSE IF Tier2(c).ok THEN LLMResult(TRUE, Tier2(c).val, Strip(c), 2)
    ELSE IF Tier3(c).ok THEN LLMResult(TRUE, Tier3(c).val, Strip(c), 3)
    ELSE LLMResult(FALSE, EmptyDict, Strip(c), 0)

\* tier is the recovery method that returned, 0 when none did
ParseJsonFromContent(c) ==
    IF Tier1(c).ok THEN LLMResult(TRUE, Tier1(c).val, c, 1)
    ELSE IF Tier2(c).ok THEN LLMResult(TRUE, Tier2(c).val, c, 2)
    ELSE IF Tier3(c).ok THEN LLMResult(TRUE, Tier3(c).val, c, 3)
    ELSE LLMResult(FALSE, EmptyDict, c, 0)

-----------------------------------------------------------------------------
(* pick_tag_from_chunks.  A RetrievedChunk is [score, key, value]; its     *)
(* page_content, url and title take no part in any decision.  Scores are   *)
(* similarities in tenths.  votes is the dict in insertion order, a        *)
(* sequence of [tag, weight] items.                                        *)

Chunk(sc, k, val) == [score |-> sc, key |-> k, value |-> val]

HasTag(chunk) == Truthy(chunk.key) /\ Truthy(chunk.value)

TagOf(chunk) == <<chunk.key, chunk.value>>

Slot(votes, tag) == CHOOSE i \in 1..Len(votes) : votes[i].tag = tag

\* one vote per chunk instead of its score
AddVoteUnweighted(votes, chunk) ==
    IF ~HasTag(chunk) THEN votes
    ELSE IF \E i \in 1..Len(votes) : votes[i].tag = TagOf(chunk)
         THEN [votes EXCEPT ![Slot(votes, TagOf(chunk))].weight = @ + 1]
         ELSE Append(votes, [tag |-> TagOf(chunk), weight |-> 0 + 1])

\* votes[tag] = votes.get(tag, 0.0) + chunk.score
AddVote(votes, chunk) ==
    IF ~HasTag(chunk) THEN votes
    ELSE IF \E i \in 1..Len(votes) : votes[i].tag = TagOf(chunk)
         THEN [votes EXCEPT ![Slot(votes, TagOf(chunk))].weight = @ + chunk.score]
         ELSE Append(votes, [tag |-> TagOf(chunk), weight |-> 0 + chunk.score])

RECURSIVE Votes(_)
Votes(chs) ==
    IF chs = <<>> THEN <<>>
    ELSE AddVote(Votes(SubSeq(chs, 1, Len(chs) - 1)), chs[Len(chs)])

\* the last item of maximal weight
MaxItemLast(votes) ==
    votes[CHOOSE i \in 1..Len(votes) :
            /\ \A j \in 1..Len(votes) : votes[j].weight <= votes[i].weight
            /\ \A j \in (i + 1)..Len(votes) : votes[j].weight < votes[i].weight]

\* max(votes.items(), key=lambda x: x[1]): the first item of maximal weight
MaxItem(votes) ==
    votes[CHOOSE i \in 1..Len(votes) :
            /\ \A j \in 1..Len(votes) : votes[j].weight <= votes[i].weight
            /\ \A j \in 1..(i - 1) : votes[j].weight < votes[i].weight]

Picked(r, k, val) == [raised |-> r, key |-> k, value |-> val]

\* raised = TRUE stands for the ValueError
PickTagFromChunks(chs) ==
    IF Votes(chs) = <<>> THEN Picked(TRUE, None, None)
    ELSE LET best == MaxItem(Votes(chs)).tag IN Picked(FALSE, best[1], best[2])

-----------------------------------------------------------------------------
(* simple_place_heuristic.  A query is a sequence of words and blanks; a   *)
(* word is a run of characters other than blanks.  The tables say of each  *)
(* word what the three patterns read of it.                                *)

\* words that end with "in" standing after a word boundary (\bin)
InHeads == {"in", "IN"}

\* words that end with from, at or near (no boundary is asked for)
PrepHeads == {"near", "from", "at", "what"}

\* words made only of characters of the class [A-Za-z...\-]
ClassWords ==
    {"Find", "all", "cafes", "in", "Malmo", "bus", "stops", "near", "Lund",
     "show", "the", "station", "from", "at", "what", "IN", "a"}

WordLen ==
    [w \in {"a"} |-> 1] @@ [w \in {"in", "at", "42", "IN"} |-> 2] @@ [w \in {"all", "bus", "the"} |-> 3] @@
    [w \in {"Find", "near", "Lund", "show", "from", "what"} |-> 4] @@
    [w \in {"cafes", "Malmo", "stops"} |-> 5] @@ [w \in {"station"} |-> 7]

RECURSIVE CharCount(_)
CharCount(s) ==
    IF s = <<>> THEN 0
    ELSE (IF IsBlank(Head(s)) THEN 1 ELSE WordLen[Head(s)]) + CharCount(Tail(s))

InClass(tok) == IsBlank(tok) \/ tok \in ClassWords

\* the words at which head\s+([class]{2,})$ matches: the head, at least one
\* blank, then to the end of the text only characters of the class, two or
\* more
MatchStarts(s, heads) ==
    {i \in 1..(Len(s) - 1) :
        /\ s[i] \in heads
        /\ IsBlank(s[i + 1])
        /\ \A j \in (i + 2)..Len(s) : InClass(s[j])
        /\ CharCount(SubSeq(s, i + 2, Len(s))) >= 2}

Min(S) == CHOOSE x \in S : \A y \in S : x <= y

\* re.search finds the leftmost match; m.group(1).strip()
SearchGroup(s, heads) == Strip(SubSeq(s, Min(MatchStarts(s, heads)) + 2, Len(s)))

\* the heads of the three patterns, in the order of the list
PatternHeads == <<InHeads, InHeads, PrepHeads>>

RECURSIVE FirstMatch(_, _)
FirstMatch(s, n) ==
    IF n > Len(PatternHeads) THEN None
    ELSE IF MatchStarts(s, PatternHeads[n]) # {} THEN Str(SearchGroup(s, PatternHeads[n]))
    ELSE FirstMatch(s, n + 1)

SimplePlaceHeuristic(q) == FirstMatch(Strip(q), 1)

DEFAULT_PLACE == Str(<<"Lund">>)

-----------------------------------------------------------------------------
(* FaissRetriever.retrieve: the hits of index.search, a sequence of        *)
(* [idx, score] in rank order, made into chunks                            *)

K == 5

MetaEntry(k, val) == [key |-> k, value |-> val]

\* self.meta, positions counted from 0
Meta ==
    <<MetaEntry(Amenity, Cafe), MetaEntry(Highway, BusStop), MetaEntry(Absent, Absent),
      MetaEntry(Amenity, Cafe), MetaEntry(Highway, BusStop)>>

Hit(i, sc) == [idx |-> i, score |-> sc]

\* what the index returns where it has no neighbour
Pad == Hit(-1, -99)

\* distances[0] and indices[0] of index.search
Distances(hs) == [r \in 1..Len(hs) |-> hs[r].score]
Indices(hs) == [r \in 1..Len(hs) |-> hs[r].idx]

\* the chunk built of the entry of mt at position idx with the score sc
ChunkAt(mt, idx, sc) == Chunk(sc, DictGet(mt[idx + 1].key), DictGet(mt[idx + 1].value))

\* each result put before the ones found so far
RECURSIVE RetrieveLoopPrepend(_, _, _, _, _)
RetrieveLoopPrepend(mt, distances, indices, rank, found) ==
    IF rank > Len(indices) THEN found
    ELSE IF indices[rank] < 0 \/ indices[rank] >= Len(mt)
         THEN RetrieveLoopPrepend(mt, distances, indices, rank + 1, found)
         ELSE RetrieveLoopPrepend(mt, distances, indices, rank + 1,
                  <<ChunkAt(mt, indices[rank], distances[rank])>> \o found)

\* the score read at the position of the result, not at the rank of the hit
RECURSIVE RetrieveLoopShifted(_, _, _, _, _)
RetrieveLoopShifted(mt, distances, indices, rank, found) ==
    IF rank > Len(indices) THEN found
    ELSE IF indices[rank] < 0 \/ indices[rank] >= Len(mt)
         THEN RetrieveLoopShifted(mt, distances, indices, rank + 1, found)
         ELSE RetrieveLoopShifted(mt, distances, indices, rank + 1,
                  Append(found, ChunkAt(mt, indices[rank], distances[Len(found) + 1])))

\* for rank, idx in enumerate(indices[0]), from the given rank (counted from
\* 1) on; found is the list results
RECURSIVE RetrieveLoop(_, _, _, _, _)
RetrieveLoop(mt, distances, indices, rank, found) ==
    IF rank > Len(indices) THEN found
    ELSE IF indices[rank] < 0 \/ indices[rank] >= Len(mt)
         THEN RetrieveLoop(mt, distances, indices, rank + 1, found)
         ELSE RetrieveLoop(mt, distances, indices, rank + 1,
                  Append(found, ChunkAt(mt, indices[rank], distances[rank])))

\* retrieve with self.meta = mt and the search result hs
RetrieveResults(mt, hs) == RetrieveLoop(mt, Distances(hs), Indices(hs), 1, <<>>)

RetrieveChunks(hits) == RetrieveResults(Meta, hits)

-----------------------------------------------------------------------------
(* call_ollama_json and llm_parse_query.  An oracle outcome is             *)
(* [kind, content]: a failure of the request, or the shape of the response *)

\* http_error: raise_for_status() raises HTTPError, a RequestException; the
\* content of such an outcome is the body of the error response
TransportFailures ==
    {"connection_error", "timeout", "http_error", "request_error", "unexpected_error"}

Outcome(k, c) == [kind |-> k, content |-> c]

Diagnostic(k) ==
    CASE k = "connection_error" -> <<"Error: Cannot connect to Ollama">>
      [] k = "timeout" -> <<"Error: Ollama request timed out">>
      [] k \in {"http_error", "request_error"} -> <<"Request error">>
      [] OTHER -> <<"Unexpected error">>

Returned(r) == [raised |-> FALSE, res |-> r]
Raised == [raised |-> TRUE, res |-> LLMResult(FALSE, EmptyDict, <<>>, 0)]

\* raise_for_status() left out: the body of an error response is parsed
CallOllamaJsonStatusIgnored(o) ==
    CASE o.kind \in TransportFailures \ {"http_error"} ->
            Returned(LLMResult(FALSE, EmptyDict, Diagnostic(o.kind), 0))
      [] o.kind = "message_null" ->
            Returned(LLMResult(FALSE, EmptyDict, Diagnostic("unexpected_error"), 0))
      [] o.kind = "content_missing" -> Returned(ParseJsonFromContent(<<>>))
      [] o.kind = "content_null" -> Raised
      [] OTHER -> Returned(ParseJsonFromContent(o.content))

\* raised = TRUE: content is None and content.strip() raises AttributeError
\* after the try block
CallOllamaJson(o) ==
    CASE o.kind \in TransportFailures ->
            Returned(LLMResult(FALSE, EmptyDict, Diagnostic(o.kind), 0))
      [] o.kind = "message_null" ->
            Returned(LLMResult(FALSE, EmptyDict, Diagnostic("unexpected_error"), 0))
      [] o.kind = "content_missing" -> Returned(ParseJsonFromContent(<<>>))
      [] o.kind = "content_null" -> Raised
      [] OTHER -> Returned(ParseJsonFromContent(o.content))

LlmRes(o, d, r) == [ok |-> o, data |-> d, raw |-> r]

LlmParseQuery(o) ==
    LET r == CallOllamaJson(o) IN
    IF r.raised THEN [raised |-> TRUE, res |-> LlmRes(FALSE, EmptyDict, <<>>)]
    ELSE IF r.res.ok THEN [raised |-> FALSE, res |-> LlmRes(TRUE, r.res.data, r.res.raw)]
    ELSE [raised |-> FALSE, res |-> LlmRes(FALSE, EmptyDict, r.res.raw)]

\* a response refused unless its confidence is a number
ValidateNeedsConfidence(data) ==
    IF ~IsDict(data) THEN FALSE
    ELSE LET tag == DictGet(Members(data).tag) IN
         IF ~IsDict(tag) THEN FALSE
         ELSE IF ~Truthy(DictGet(tag.key)) \/ ~Truthy(DictGet(tag.value)) THEN FALSE
         ELSE IF ~IsStr(DictGet(tag.key)) \/ ~IsStr(DictGet(tag.value)) THEN FALSE
         ELSE Members(data).confidence.t = "num"

\* a response without a place refused
ValidateRequiresPlace(data) ==
    IF ~IsDict(data) THEN FALSE
    ELSE LET tag == DictGet(Members(data).tag) IN
         IF ~IsDict(tag) THEN FALSE
         ELSE IF ~Truthy(DictGet(tag.key)) \/ ~Truthy(DictGet(tag.value)) THEN FALSE
         ELSE IF ~IsStr(DictGet(tag.key)) \/ ~IsStr(DictGet(tag.value)) THEN FALSE
         ELSE Truthy(DictGet(Members(data).place))

\* isinstance(key, str) not asked of the key and the value
ValidateNoTypeCheck(data) ==
    IF ~IsDict(data) THEN FALSE
    ELSE LET tag == DictGet(Members(data).tag) IN
         IF ~IsDict(tag) THEN FALSE
         ELSE IF ~Truthy(DictGet(tag.key)) \/ ~Truthy(DictGet(tag.value)) THEN FALSE
         ELSE TRUE

ValidateLlmResponse(data) ==
    IF ~IsDict(data) THEN FALSE
    ELSE LET tag == DictGet(Members(data).tag) IN
         IF ~IsDict(tag) THEN FALSE
         ELSE IF ~Truthy(DictGet(tag.key)) \/ ~Truthy(DictGet(tag.value)) THEN FALSE
         ELSE IF ~IsStr(DictGet(tag.key)) \/ ~IsStr(DictGet(tag.value)) THEN FALSE
         ELSE TRUE

-----------------------------------------------------------------------------
(* run_query, steps 3 and 4 *)

Chosen(p, src) == [place |-> p, source |-> src]

PlaceFromLlm(ok, res) == IF ok THEN DictGet(Members(res.data).place) ELSE None

\* the place of any parsed object is taken, valid or not
ChoosePlaceUnvalidated(ok, res, q) ==
    LET p == IF res.ok /\ IsDict(res.data) THEN DictGet(Members(res.data).place) ELSE None
    IN IF Truthy(p) THEN Chosen(p, "llm")
       ELSE IF Truthy(SimplePlaceHeuristic(q)) THEN Chosen(SimplePlaceHeuristic(q), "heuristic")
       ELSE Chosen(DEFAULT_PLACE, "default")

\* the heuristic left out of the chain
ChoosePlaceNoHeuristic(ok, res, q) ==
    IF Truthy(PlaceFromLlm(ok, res)) THEN Chosen(PlaceFromLlm(ok, res), "llm")
    ELSE Chosen(DEFAULT_PLACE, "default")

ChoosePlace(ok, res, q) ==
    IF Truthy(PlaceFromLlm(ok, res)) THEN Chosen(PlaceFromLlm(ok, res), "llm")
    ELSE IF Truthy(SimplePlaceHeuristic(q)) THEN Chosen(SimplePlaceHeuristic(q), "heuristic")
    ELSE Chosen(DEFAULT_PLACE, "default")

\* llm_res["data"].get("tag", {}) and its key and value
TagFromLlm(ok, res) ==
    IF ~ok THEN <<None, None>>
    ELSE LET tag_data == IF Members(res.data).tag = Absent
                         THEN TagDict(Absent, Absent)
                         ELSE Members(res.data).tag
         IN <<DictGet(tag_data.key), DictGet(tag_data.value)>>

ChosenTag(r, k, val, src) == [raised |-> r, key |-> k, value |-> val, source |-> src]

\* the ValueError of the vote answered with no tag at all
ChooseTagNoFailure(ok, res, chs) ==
    LET llm == TagFromLlm(ok, res) IN
    IF ~Truthy(llm[1]) \/ ~Truthy(llm[2])
    THEN ChosenTag(FALSE, PickTagFromChunks(chs).key, PickTagFromChunks(chs).value, "vote")
    ELSE ChosenTag(FALSE, llm[1], llm[2], "llm")

\* raised = TRUE stands for the ValueError of pick_tag_from_chunks
ChooseTag(ok, res, chs) ==
    LET llm == TagFromLlm(ok, res) IN
    IF ~Truthy(llm[1]) \/ ~Truthy(llm[2])
    THEN ChosenTag(PickTagFromChunks(chs).raised, PickTagFromChunks(chs).key,
                   PickTagFromChunks(chs).value, "vote")
    ELSE ChosenTag(FALSE, llm[1], llm[2], "llm")

-----------------------------------------------------------------------------
(* run_query: what it returns.  fields are the keys of the dict. *)

Record(ok, fs, q, p, tg, err) ==
    [returned |-> TRUE, success |-> ok, fields |-> fs, query |-> q, place |-> p,
     chosen_tag |-> tg, error |-> err]

NoResult ==
    [returned |-> FALSE, success |-> FALSE, fields |-> {}, query |-> <<>>, place |-> None,
     chosen_tag |-> <<None, None>>, error |-> ""]

RetrievalFailed(q) ==
    Record(FALSE, {"query", "error", "success"}, q, None, <<None, None>>,
           "RAG retrieval failed")

NoTagResolved(q) ==
    Record(FALSE, {"query", "error", "success"}, q, None, <<None, None>>,
           "Could not determine OSM tag")

GeocodingFailed(q, p) ==
    Record(FALSE, {"query", "place", "error", "success"}, q, p, <<None, None>>,
           "Geocoding failed")

ExtractionFailed(q, p, k, val, err) ==
    Record(FALSE, {"query", "place", "chosen_tag", "error", "success"}, q, p, <<k, val>>, err)

Success(q, p, k, val) ==
    Record(TRUE,
           {"success", "query", "place", "chosen_tag", "bbox", "count", "geojson_path",
            "evidence", "llm_ok", "llm_raw", "llm_explanation", "llm_confidence"},
           q, p, <<k, val>>, "")

-----------------------------------------------------------------------------
(* The inputs of the three specifications *)

MaxLen == 5

Alphabet == {LBrace, RBrace, Quote, Blank, FenceJson, Fence, Digit, Prose, FlatBody}

\* every response of at most n tokens
Texts(n) == UNION {[1..m -> Alphabet] : m \in 0..n}

MaxChunks == 3

Scores == {-3, 1, 5, 9}

TagChoices ==
    {<<Amenity, Cafe>>, <<Highway, BusStop>>, <<None, None>>,
     <<Amenity, None>>, <<Str(<<>>), Cafe>>}

ChunkChoices == {Chunk(sc, tg[1], tg[2]) : sc \in Scores, tg \in TagChoices}

\* every list of at most n chunks
EvidenceLists(n) == UNION {[1..m -> ChunkChoices] : m \in 0..n}

RECURSIVE Sentence(_)
Sentence(ws) ==
    IF Len(ws) <= 1 THEN ws ELSE <<Head(ws), Blank>> \o Sentence(Tail(ws))

Queries ==
    {Sentence(<<"Find", "all", "cafes", "in", "Malmo">>),
     Sentence(<<"bus", "stops", "near", "Lund">>),
     Sentence(<<"show", "bus", "stops">>),
     Sentence(<<"cafes", "in", "Malmo", "near", "the", "station">>)}

\* results of index.search(query_vector, K), best first
SearchResults ==
    {<<Pad, Pad, Pad, Pad, Pad>>,
     <<Hit(0, 9), Hit(3, 8), Hit(1, 5), Hit(2, 3), Hit(4, 1)>>,
     <<Hit(2, 5), Pad, Pad, Pad, Pad>>,
     <<Hit(0, 5), Hit(1, 4), Hit(4, 4), Hit(2, 1), Pad>>,
     <<Hit(1, 7), Hit(7, 6), Hit(0, 2), Pad, Pad>>,
     <<Hit(3, 4), Hit(4, 4), Pad, Pad, Pad>>}

Braced(b) == <<LBrace, b, RBrace>>

\* the objects the oracle answers with in a run: those without confidence and
\* explanation, and some with them
OracleBodies ==
    ({Join(p[1], tg[1]) : p \in PlaceMembers, tg \in TagMembers} \ {""})
    \cup {FlatBody}
    \cup {Join(Join(b, cf[1]), ex[1]) :
            b \in {"place:Malmo,tag:{key:amenity,value:cafe}",
                    "place:null,tag:{key:highway,value:bus_stop}",
                    "place:Malmo,tag:{key:amenity}"},
            cf \in ConfidenceMembers, ex \in ExplanationMembers}

\* message.content of the responses the oracle gives
OracleTexts ==
    {Braced(b) : b \in OracleBodies}
    \cup {<<FenceJson, Blank>> \o Braced(b) \o <<Blank, Fence>> :
            b \in {"place:Malmo,tag:{key:amenity,value:cafe}", "place:Malmo"}}
    \cup {<<Prose, Blank>> \o Braced(b) \o <<Blank, Prose>> :
            b \in {"place:null,tag:{key:highway,value:bus_stop}"}}
    \cup {<<>>, <<Prose>>, <<LBrace, RBrace>>, <<LBrace, Prose>>, <<"42">>, <<"null">>,
          <<"true">>, <<"[]">>, <<Quote, Prose, Quote>>}

OracleOutcomes ==
    {Outcome(k, <<>>) :
        k \in (TransportFailures \ {"http_error"})
              \cup {"message_null", "content_missing", "content_null"}}
    \cup {Outcome("http_error", Braced("place:Malmo,tag:{key:amenity,value:cafe}"))}
    \cup {Outcome("text", c) : c \in OracleTexts}

MaxBody == 2

\* the outcomes call_ollama_json is called with on its own
CallOutcomes ==
    OracleOutcomes
    \cup {Outcome(kd, c) : kd \in {"text", "http_error"}, c \in Texts(MaxBody)}

-----------------------------------------------------------------------------
(* _parse_json_from_content and pick_tag_from_chunks called on their own *)

NotCalled == LLMResult(FALSE, EmptyDict, <<>>, 0)

NotPicked == Picked(FALSE, None, None)

ParseIdle == content = <<>> /\ parsed = NotCalled /\ pcParse = "idle"

VoteIdle == evidence = <<>> /\ picked = NotPicked /\ pcVote = "idle"

\* what a run remembers of the run before it
Summary(o, chs, ok, p, ps, kv, ts, cs, os, at, e, r) ==
    [oracle |-> o, chunks |-> chs, llm_ok |-> ok, place |-> p, placeSource |-> ps,
     chosen_tag |-> kv, tagSource |-> ts, calls |-> cs, outcomes |-> os, pc |-> at,
     exc |-> e, result |-> r]

NoFirst ==
    Summary(Outcome("none", <<>>), <<>>, FALSE, None, "none", <<None, None>>, "none",
            <<>>, <<>>, "idle", "none", NoResult)

RunIdle ==
    /\ pc = "idle"
    /\ query = <<>>
    /\ chunks = <<>>
    /\ oracle = Outcome("none", <<>>)
    /\ llm_res = LlmRes(FALSE, EmptyDict, <<>>)
    /\ llm_ok = FALSE
    /\ place = None
    /\ key = None
    /\ value = None
    /\ placeSource = "none"
    /\ tagSource = "none"
    /\ calls = <<>>
    /\ exc = "none"
    /\ result = NoResult
    /\ outcomes = <<>>
    /\ round = 0
    /\ first = NoFirst

CallIdle == request = Outcome("none", <<>>) /\ reply = Returned(NotCalled) /\ pcCall = "idle"

ValidateIdle == argData = None /\ valid = FALSE /\ pcValidate = "idle"

RetrieveIdle ==
    selfMeta = <<>> /\ argK = 0 /\ searchHits = <<>> /\ results = <<>> /\ pcRetrieve = "idle"

HeuristicIdle == utterance = <<>> /\ span = None /\ pcHeuristic = "idle"

SharedIdle ==
    /\ files = <<>>
    /\ procPc = <<>>
    /\ resolved = <<>>
    /\ rows = <<>>
    /\ procResult = <<>>

PureIdle == CallIdle /\ ValidateIdle /\ RetrieveIdle /\ HeuristicIdle /\ SharedIdle

InitParse ==
    /\ content \in Texts(MaxLen)
    /\ parsed = NotCalled
    /\ pcParse = "call"
    /\ VoteIdle
    /\ RunIdle
    /\ PureIdle

CallParse ==
    /\ pcParse = "call"
    /\ parsed' = ParseJsonFromContent(content)
    /\ pcParse' = "returned"
    /\ UNCHANGED <<content, voteVars, runVars, pureVars>>

NextParse == CallParse

SpecParse == InitParse /\ [][NextParse]_vars

InitVote ==
    /\ evidence \in EvidenceLists(MaxChunks)
    /\ picked = NotPicked
    /\ pcVote = "call"
    /\ ParseIdle
    /\ RunIdle
    /\ PureIdle

CallVote ==
    /\ pcVote = "call"
    /\ picked' = PickTagFromChunks(evidence)
    /\ pcVote' = "returned"
    /\ UNCHANGED <<evidence, parseVars, runVars, pureVars>>

NextVote == CallVote

SpecVote == InitVote /\ [][NextVote]_vars

MaxWords == 4

Vocabulary == {"in", "IN", "near", "at", "from", "what", "Malmo", "42", "a"}

\* the queries simple_place_heuristic is called with on its own: every
\* sentence of at most n words of the vocabulary, and the queries of the
\* runs, also with blanks around them
HeuristicQueries(n) ==
    {Sentence(ws) : ws \in UNION {[1..m -> Vocabulary] : m \in 0..n}}
    \cup Queries
    \cup {<<Blank>> \o q \o <<Blank, Blank>> : q \in Queries}

InitHeuristic ==
    /\ utterance \in HeuristicQueries(MaxWords)
    /\ span = None
    /\ pcHeuristic = "call"
    /\ ParseIdle /\ VoteIdle /\ RunIdle
    /\ CallIdle /\ ValidateIdle /\ RetrieveIdle /\ SharedIdle

CallHeuristic ==
    /\ pcHeuristic = "call"
    /\ span' = SimplePlaceHeuristic(utterance)
    /\ pcHeuristic' = "returned"
    /\ UNCHANGED <<utterance, parseVars, voteVars, runVars,
                   callVars, validateVars, retrieveVars, sharedVars>>

NextHeuristic == CallHeuristic

SpecHeuristic == InitHeuristic /\ [][NextHeuristic]_vars

MaxK == 3

HitChoices == {Hit(i, sc) : i \in {0, 1, 2, 4, 7}, sc \in {1, 5, 9}} \cup {Pad}

\* the results index.search gives for k = n: n hits, best first, no position
\* twice, the ranks without a neighbour last
SearchHits(n) ==
    {h \in [1..n -> HitChoices] :
        /\ \A r \in 1..(n - 1) : h[r].score >= h[r + 1].score
        /\ \A r1, r2 \in 1..n : r1 # r2 /\ h[r1].idx = h[r2].idx => h[r1] = Pad}

\* self.meta of a corpus of any size up to that of Meta
Corpora == {SubSeq(Meta, 1, n) : n \in 0..Len(Meta)}

InitRetrieve ==
    /\ selfMeta \in Corpora
    /\ argK \in 1..MaxK
    /\ searchHits \in SearchHits(argK)
    /\ results = <<>>
    /\ pcRetrieve = "call"
    /\ ParseIdle /\ VoteIdle /\ RunIdle
    /\ CallIdle /\ ValidateIdle /\ HeuristicIdle /\ SharedIdle

CallRetrieve ==
    /\ pcRetrieve = "call"
    /\ results' = RetrieveResults(selfMeta, searchHits)
    /\ pcRetrieve' = "returned"
    /\ UNCHANGED <<selfMeta, argK, searchHits, parseVars, voteVars, runVars,
                   callVars, validateVars, heuristicVars, sharedVars>>

NextRetrieve == CallRetrieve

SpecRetrieve == InitRetrieve /\ [][NextRetrieve]_vars

\* the values validate_llm_response is called with on its own: every object
\* of the table, the empty object, and values that are no mapping
ValidateInputs ==
    {Dict(<<b>>) : b \in BodyTokens}
    \cup {EmptyDict, None, Num(<<"42">>), Str(<<"text">>), List(<<>>), Bool(<<"true">>)}

InitValidate ==
    /\ argData \in ValidateInputs
    /\ valid = FALSE
    /\ pcValidate = "call"
    /\ ParseIdle /\ VoteIdle /\ RunIdle
    /\ CallIdle /\ RetrieveIdle /\ HeuristicIdle /\ SharedIdle

CallValidate ==
    /\ pcValidate = "call"
    /\ valid' = ValidateLlmResponse(argData)
    /\ pcValidate' = "returned"
    /\ UNCHANGED <<argData, parseVars, voteVars, runVars,
                   callVars, retrieveVars, heuristicVars, sharedVars>>

NextValidate == CallValidate

SpecValidate == InitValidate /\ [][NextValidate]_vars

InitCall ==
    /\ request \in CallOutcomes
    /\ reply = Returned(NotCalled)
    /\ pcCall = "call"
    /\ ParseIdle /\ VoteIdle /\ RunIdle
    /\ ValidateIdle /\ RetrieveIdle /\ HeuristicIdle /\ SharedIdle

CallCall ==
    /\ pcCall = "call"
    /\ reply' = CallOllamaJson(request)
    /\ pcCall' = "returned"
    /\ UNCHANGED <<request, parseVars, voteVars, runVars,
                   validateVars, retrieveVars, heuristicVars, sharedVars>>

NextCall == CallCall

SpecCall == InitCall /\ [][NextCall]_vars

-----------------------------------------------------------------------------
(* run_query, one action per step *)

Init ==
    /\ pc = "retrieve"
    /\ query \in Queries
    /\ chunks = <<>>
    /\ oracle = Outcome("none", <<>>)
    /\ llm_res = LlmRes(FALSE, EmptyDict, <<>>)
    /\ llm_ok = FALSE
    /\ place = None
    /\ key = None
    /\ value = None
    /\ placeSource = "none"
    /\ tagSource = "none"
    /\ calls = <<>>
    /\ exc = "none"
    /\ result = NoResult
    /\ outcomes = <<>>
    /\ round = 1
    /\ first = NoFirst
    /\ ParseIdle
    /\ VoteIdle
    /\ PureIdle

Return(r) == result' = r /\ pc' = "done"

\* the collaborator is invoked and ends as said
Invoke(stage, outcome) ==
    calls' = Append(calls, stage) /\ outcomes' = Append(outcomes, outcome)

\* In the second run of a pair the collaborators behave as they did in the
\* first: one that the first run invoked ends the same way again.
Behaves(stage, outcome) ==
    round = 2 =>
        \A i \in 1..Len(first.calls) :
            first.calls[i] = stage => first.outcomes[i] = outcome

\* two responses that are the same text but for the confidence and the
\* explanation of the object in them
SameButAdvisory(c1, c2) ==
    /\ Len(c1) = Len(c2)
    /\ \A i \in 1..Len(c1) :
          \/ c1[i] = c2[i]
          \/ /\ c1[i] \in BodyTokens /\ c2[i] \in BodyTokens
             /\ BodyTable[c1[i]].place = BodyTable[c2[i]].place
             /\ BodyTable[c1[i]].tag = BodyTable[c2[i]].tag

\* In the second run of a pair the oracle answers as in the first, but for
\* the confidence and the explanation.
Answers(o) ==
    round = 2 =>
        o.kind = first.oracle.kind /\ SameButAdvisory(o.content, first.oracle.content)

\* the exception of step 1 swallowed: the run goes on with no evidence
RetrieveFailsSwallowed ==
    /\ pc = "retrieve"
    /\ Behaves("retrieve", "raised")
    /\ Invoke("retrieve", "raised")
    /\ pc' = "parse"
    /\ UNCHANGED <<query, chunks, oracle, llm_res, llm_ok, place, key, value,
                   placeSource, tagSource, exc, result, round, first,
                   parseVars, voteVars, pureVars>>

\* step 1: FaissRetriever() and retrieve(query, k=5); any exception returns
RetrieveFails ==
    /\ pc = "retrieve"
    /\ Behaves("retrieve", "raised")
    /\ Invoke("retrieve", "raised")
    /\ Return(RetrievalFailed(query))
    /\ UNCHANGED <<query, chunks, oracle, llm_res, llm_ok, place, key, value,
                   placeSource, tagSource, exc, round, first,
                   parseVars, voteVars, pureVars>>

Retrieve ==
    /\ pc = "retrieve"
    /\ Behaves("retrieve", "ok")
    /\ Invoke("retrieve", "ok")
    /\ \E hits \in {h \in SearchResults : Len(h) = K} :
          /\ round = 2 => RetrieveChunks(hits) = first.chunks
          /\ chunks' = RetrieveChunks(hits)
    /\ pc' = "parse"
    /\ UNCHANGED <<query, oracle, llm_res, llm_ok, place, key, value,
                   placeSource, tagSource, exc, result, round, first,
                   parseVars, voteVars, pureVars>>

\* the oracle called again after a call that failed
ParseRetrying ==
    /\ pc = "parse"
    /\ \E o \in OracleOutcomes :
          /\ Answers(o)
          /\ oracle' = o
          /\ IF LlmParseQuery(o).raised
             THEN /\ Invoke("oracle", "raised")
                  /\ pc' = "raised" /\ exc' = "parse" /\ UNCHANGED llm_res
             ELSE IF o.kind \in TransportFailures /\ Len(calls) < 3
             THEN /\ Invoke("oracle", "ok")
                  /\ pc' = "parse" /\ UNCHANGED <<llm_res, exc>>
             ELSE /\ Invoke("oracle", "ok")
                  /\ pc' = "validate" /\ llm_res' = LlmParseQuery(o).res /\ UNCHANGED exc
    /\ UNCHANGED <<query, chunks, llm_ok, place, key, value,
                   placeSource, tagSource, result, round, first,
                   parseVars, voteVars, pureVars>>

\* step 2, line 83: llm_parse_query; an exception it raises leaves run_query
Parse ==
    /\ pc = "parse"
    /\ \E o \in OracleOutcomes :
          /\ Answers(o)
          /\ oracle' = o
          /\ IF LlmParseQuery(o).raised
             THEN /\ Invoke("oracle", "raised")
                  /\ pc' = "raised" /\ exc' = "parse" /\ UNCHANGED llm_res
             ELSE /\ Invoke("oracle", "ok")
                  /\ pc' = "validate" /\ llm_res' = LlmParseQuery(o).res /\ UNCHANGED exc
    /\ UNCHANGED <<query, chunks, llm_ok, place, key, value,
                   placeSource, tagSource, result, round, first,
                   parseVars, voteVars, pureVars>>

\* step 2, line 84
Validate ==
    /\ pc = "validate"
    /\ llm_ok' = (llm_res.ok /\ ValidateLlmResponse(llm_res.data))
    /\ pc' = "place"
    /\ UNCHANGED <<query, chunks, oracle, llm_res, place, key, value,
                   placeSource, tagSource, calls, outcomes, exc, result, round, first,
                   parseVars, voteVars, pureVars>>

\* step 3
ResolvePlace ==
    /\ pc = "place"
    /\ place' = ChoosePlace(llm_ok, llm_res, query).place
    /\ placeSource' = ChoosePlace(llm_ok, llm_res, query).source
    /\ pc' = "tag"
    /\ UNCHANGED <<query, chunks, oracle, llm_res, llm_ok, key, value,
                   tagSource, calls, outcomes, exc, result, round, first,
                   parseVars, voteVars, pureVars>>

\* step 4
ResolveTag ==
    /\ pc = "tag"
    /\ LET t == ChooseTag(llm_ok, llm_res, chunks) IN
          /\ tagSource' = t.source
          /\ IF t.raised
             THEN Return(NoTagResolved(query)) /\ UNCHANGED <<key, value>>
             ELSE key' = t.key /\ value' = t.value /\ pc' = "geocode" /\ UNCHANGED result
    /\ UNCHANGED <<query, chunks, oracle, llm_res, llm_ok, place,
                   placeSource, calls, outcomes, exc, round, first,
                   parseVars, voteVars, pureVars>>

\* step 5, geocode_to_bbox raises
GeocodeFails ==
    /\ pc = "geocode"
    /\ Behaves("geocode", "raised")
    /\ Invoke("geocode", "raised")
    /\ Return(GeocodingFailed(query, place))
    /\ UNCHANGED <<query, chunks, oracle, llm_res, llm_ok, place, key, value,
                   placeSource, tagSource, exc, round, first,
                   parseVars, voteVars, pureVars>>

\* step 5
Geocode ==
    /\ pc = "geocode"
    /\ Behaves("geocode", "ok")
    /\ Invoke("geocode", "ok")
    /\ pc' = "extract_bbox"
    /\ UNCHANGED <<query, chunks, oracle, llm_res, llm_ok, place, key, value,
                   placeSource, tagSource, exc, result, round, first,
                   parseVars, voteVars, pureVars>>

\* step 6, line 139: safe_slug(place) calls place.lower() outside any try
SafeSlugRaises ==
    /\ pc = "extract_bbox"
    /\ ~IsStr(place)
    /\ pc' = "raised"
    /\ exc' = "safe_slug"
    /\ UNCHANGED <<query, chunks, oracle, llm_res, llm_ok, place, key, value,
                   placeSource, tagSource, calls, outcomes, result, round, first,
                   parseVars, voteVars, pureVars>>

\* step 6, osmium_extract_bbox raises
ExtractBBoxFails ==
    /\ pc = "extract_bbox"
    /\ IsStr(place)
    /\ Behaves("extract_bbox", "raised")
    /\ Invoke("extract_bbox", "raised")
    /\ Return(ExtractionFailed(query, place, key, value, "OSM extraction failed"))
    /\ UNCHANGED <<query, chunks, oracle, llm_res, llm_ok, place, key, value,
                   placeSource, tagSource, exc, round, first,
                   parseVars, voteVars, pureVars>>

\* step 6
ExtractBBox ==
    /\ pc = "extract_bbox"
    /\ IsStr(place)
    /\ Behaves("extract_bbox", "ok")
    /\ Invoke("extract_bbox", "ok")
    /\ pc' = "extract_nodes"
    /\ UNCHANGED <<query, chunks, oracle, llm_res, llm_ok, place, key, value,
                   placeSource, tagSource, exc, result, round, first,
                   parseVars, voteVars, pureVars>>

\* the exception of step 7 swallowed: the result is assembled all the same
ExtractNodesFailsSwallowed ==
    /\ pc = "extract_nodes"
    /\ Behaves("extract_nodes", "raised")
    /\ Invoke("extract_nodes", "raised")
    /\ pc' = "assemble"
    /\ UNCHANGED <<query, chunks, oracle, llm_res, llm_ok, place, key, value,
                   placeSource, tagSource, exc, result, round, first,
                   parseVars, voteVars, pureVars>>

\* step 7, extract_nodes_to_geojson raises
ExtractNodesFails ==
    /\ pc = "extract_nodes"
    /\ Behaves("extract_nodes", "raised")
    /\ Invoke("extract_nodes", "raised")
    /\ Return(ExtractionFailed(query, place, key, value, "Node extraction failed"))
    /\ UNCHANGED <<query, chunks, oracle, llm_res, llm_ok, place, key, value,
                   placeSource, tagSource, exc, round, first,
                   parseVars, voteVars, pureVars>>

\* step 7
ExtractNodes ==
    /\ pc = "extract_nodes"
    /\ Behaves("extract_nodes", "ok")
    /\ Invoke("extract_nodes", "ok")
    /\ pc' = "assemble"
    /\ UNCHANGED <<query, chunks, oracle, llm_res, llm_ok, place, key, value,
                   placeSource, tagSource, exc, result, round, first,
                   parseVars, voteVars, pureVars>>

\* lines 169-193: llm_res.get("data", {}).get(...) raises AttributeError when
\* data is no dict
Assemble ==
    /\ pc = "assemble"
    /\ IF IsDict(llm_res.data)
       THEN Return(Success(query, place, key, value)) /\ UNCHANGED exc
       ELSE pc' = "raised" /\ exc' = "assemble" /\ UNCHANGED result
    /\ UNCHANGED <<query, chunks, oracle, llm_res, llm_ok, place, key, value,
                   placeSource, tagSource, calls, outcomes, round, first,
                   parseVars, voteVars, pureVars>>

Next ==
    \/ RetrieveFails
    \/ Retrieve
    \/ Parse
    \/ Validate
    \/ ResolvePlace
    \/ ResolveTag
    \/ GeocodeFails
    \/ Geocode
    \/ SafeSlugRaises
    \/ ExtractBBoxFails
    \/ ExtractBBox
    \/ ExtractNodesFails
    \/ ExtractNodes
    \/ Assemble

Spec == Init /\ [][Next]_vars

-----------------------------------------------------------------------------
(* Two runs of run_query on the same query, one after the other, the       *)
(* second with the evidence and the collaborators of the first and with an *)
(* oracle response that differs in confidence and explanation at most      *)

\* the oracle answered with text in which an object stands
AnsweredObject ==
    oracle.kind = "text" /\ \E i \in 1..Len(oracle.content) : oracle.content[i] \in BodyTokens

\* the first run is over; the second is called
SecondRun ==
    /\ round = 1
    /\ pc \in {"done", "raised"}
    /\ AnsweredObject
    /\ first' = Summary(oracle, chunks, llm_ok, place, placeSource, <<key, value>>,
                        tagSource, calls, outcomes, pc, exc, result)
    /\ round' = 2
    /\ pc' = "retrieve"
    /\ chunks' = <<>>
    /\ oracle' = Outcome("none", <<>>)
    /\ llm_res' = LlmRes(FALSE, EmptyDict, <<>>)
    /\ llm_ok' = FALSE
    /\ place' = None
    /\ key' = None
    /\ value' = None
    /\ placeSource' = "none"
    /\ tagSource' = "none"
    /\ calls' = <<>>
    /\ exc' = "none"
    /\ result' = NoResult
    /\ outcomes' = <<>>
    /\ UNCHANGED <<query, parseVars, voteVars, pureVars>>

NextPair == Next \/ SecondRun

SpecPair == Init /\ [][NextPair]_vars

-----------------------------------------------------------------------------
(* The three recovery candidates as the design states them *)

\* (1) the whole trimmed response
WholeTrimmed(c) == Strip(c)

\* (2) the first fenced block marked json: its opening fence is the first
\* one marked json, its closing fence the next fence after it
FencedBlocks(c) ==
    {b \in (1..Len(c)) \X (1..Len(c)) :
        /\ b[1] < b[2]
        /\ c[b[1]] = FenceJson
        /\ \A h \in 1..(b[1] - 1) : c[h] # FenceJson
        /\ c[b[2]] \in {Fence, FenceJson}
        /\ \A h \in (b[1] + 1)..(b[2] - 1) : c[h] \notin {Fence, FenceJson}}

\* (3) from the first opening brace to the last closing brace, inclusive
BraceSpans(c) ==
    {b \in (1..Len(c)) \X (1..Len(c)) :
        /\ b[1] < b[2]
        /\ c[b[1]] = LBrace
        /\ \A h \in 1..(b[1] - 1) : c[h] # LBrace
        /\ c[b[2]] = RBrace
        /\ \A h \in (b[2] + 1)..Len(c) : c[h] # RBrace}

\* the parses of the candidates of a tier: empty, or one value
Parses1(c) ==
    IF JsonLoads(WholeTrimmed(c)).ok THEN {JsonLoads(WholeTrimmed(c)).val} ELSE {}
Parses2(c) ==
    {JsonLoads(SubSeq(c, b[1] + 1, b[2] - 1)).val :
        b \in {d \in FencedBlocks(c) : JsonLoads(SubSeq(c, d[1] + 1, d[2] - 1)).ok}}
Parses3(c) ==
    {JsonLoads(SubSeq(c, b[1], b[2])).val :
        b \in {d \in BraceSpans(c) : JsonLoads(SubSeq(c, d[1], d[2])).ok}}

\* C9: the data returned is the parse of the first tier, in the order whole
\* trimmed response, first fenced json block, first-brace-to-last-brace span,
\* whose candidate parses; the tier that returned is that first one, so no
\* later tier was consulted; when a tier's candidate parses the call succeeds
C9_TierOrder ==
    pcParse = "returned" =>
        /\ Parses1(content) # {} =>
              parsed.ok /\ parsed.tier = 1 /\ parsed.data \in Parses1(content)
        /\ Parses1(content) = {} /\ Parses2(content) # {} =>
              parsed.ok /\ parsed.tier = 2 /\ parsed.data \in Parses2(content)
        /\ Parses1(content) = {} /\ Parses2(content) = {} /\ Parses3(content) # {} =>
              parsed.ok /\ parsed.tier = 3 /\ parsed.data \in Parses3(content)

\* a response where the tier that returned is followed by a tier that would
\* have parsed to something else
C9_Witness ==
    /\ pcParse = "returned"
    /\ \/ parsed.tier = 1 /\ Parses2(content) \notin {{}, {parsed.data}}
       \/ parsed.tier = 1 /\ Parses3(content) \notin {{}, {parsed.data}}
       \/ parsed.tier = 2 /\ Parses3(content) \notin {{}, {parsed.data}}

\* C10: raw is the response text as received, whether or not a tier parsed;
\* when no tier's candidate parses the result is ok = false with data = {}
C10_RawAndFailure ==
    pcParse = "returned" =>
        /\ parsed.raw = content
        /\ Parses1(content) \cup Parses2(content) \cup Parses3(content) = {} =>
              ~parsed.ok /\ parsed.data = EmptyDict

\* every tier was tried and failed, on a text that trimming would change
C10_Witness ==
    /\ pcParse = "returned"
    /\ ~parsed.ok
    /\ Strip(content) # content
    /\ FencedBlocks(content) # {}
    /\ BraceSpans(content) # {}

-----------------------------------------------------------------------------
(* Tag voting as the design states it *)

\* the accumulated weight of a pair: the scores of the items carrying
\* exactly that pair, both parts non-empty
RECURSIVE Weight(_, _)
Weight(chs, pair) ==
    IF chs = <<>> THEN 0
    ELSE Weight(Tail(chs), pair)
         + (IF /\ Head(chs).key = pair[1]
               /\ Head(chs).value = pair[2]
               /\ Head(chs).key \notin {None, Str(<<>>)}
               /\ Head(chs).value \notin {None, Str(<<>>)}
            THEN Head(chs).score ELSE 0)

\* the pairs some item carries in full
PairsPresent(chs) ==
    {<<chs[i].key, chs[i].value>> : i \in
        {j \in 1..Len(chs) : chs[j].key \notin {None, Str(<<>>)}
                             /\ chs[j].value \notin {None, Str(<<>>)}}}

VotingExample == <<Chunk(9, Amenity, Cafe), Chunk(1, Amenity, Cafe), Chunk(5, Highway, BusStop)>>

\* C4: the pair returned is carried in full by some item and no pair
\* present has a larger accumulated weight; in the design's example the
\* pair is amenity=cafe
C4_MaxWeight ==
    pcVote = "returned" /\ ~picked.raised =>
        /\ <<picked.key, picked.value>> \in PairsPresent(evidence)
        /\ \A p \in PairsPresent(evidence) :
              Weight(evidence, p) <= Weight(evidence, <<picked.key, picked.value>>)
        /\ evidence = VotingExample => picked.key = Amenity /\ picked.value = Cafe

\* the winner is not the top-ranked item's pair, is outnumbered by
\* another pair, and an item without a full pair is in the list
C4_Witness ==
    /\ pcVote = "returned"
    /\ ~picked.raised
    /\ Len(evidence) = 3
    /\ <<evidence[1].key, evidence[1].value>> # <<picked.key, picked.value>>
    /\ \E i \in 1..3 : <<evidence[i].key, evidence[i].value>> \notin PairsPresent(evidence)
    /\ Cardinality(PairsPresent(evidence)) = 2

-----------------------------------------------------------------------------
(* Resolution of place and tag as the design states it *)

\* the schema gate: a mapping with a tag sub-mapping whose key and value
\* are non-empty text
SchemaValid(data) ==
    /\ data.t = "dict"
    /\ Members(data).tag.t = "dict"
    /\ Members(data).tag.key.t = "str" /\ Members(data).tag.key.v # <<>>
    /\ Members(data).tag.value.t = "str" /\ Members(data).tag.value.v # <<>>

\* the oracle response parsed and passed the schema gate
LlmAccepted == llm_res.ok /\ SchemaValid(llm_res.data)

\* a value that is there: not missing, not null, not the empty text, not zero
HasValue(x) == x \notin {Absent, None, Str(<<>>), Num(<<"0">>)}

NoTaggedEvidence ==
    \A i \in 1..Len(chunks) :
        chunks[i].key \in {None, Str(<<>>)} \/ chunks[i].value \in {None, Str(<<>>)}

HandoffCalls == {"geocode", "extract_bbox", "extract_nodes"}

\* C1: once step 3 has run, whatever the query and the oracle outcome, the
\* place is a non-empty text value
C1_PlaceIsNonEmptyText ==
    placeSource # "none" => place.t = "str" /\ place.v # <<>>

\* C2: the place is the LLM's exactly when the response parsed, passed the
\* schema gate and carries a place; otherwise it is the span of
\* simple_place_heuristic when there is one; otherwise the default
C2_PlaceOrder ==
    placeSource # "none" =>
        IF LlmAccepted /\ HasValue(Members(llm_res.data).place)
        THEN placeSource = "llm" /\ place = Members(llm_res.data).place
        ELSE IF SimplePlaceHeuristic(query) \notin {None, Str(<<>>)}
             THEN placeSource = "heuristic" /\ place = SimplePlaceHeuristic(query)
             ELSE placeSource = "default" /\ place = DEFAULT_PLACE

\* the LLM's place is chosen although the query text names another place
C2_Witness ==
    /\ placeSource = "llm"
    /\ SimplePlaceHeuristic(query) \notin {None, place}

\* C3: key and value are the LLM's exactly when the response parsed and
\* passed the schema gate, whatever the evidence holds; otherwise they are
\* the outcome of the vote over the evidence
C3_TagSource ==
    tagSource # "none" =>
        IF LlmAccepted
        THEN /\ tagSource = "llm"
             /\ key = Members(llm_res.data).tag.key
             /\ value = Members(llm_res.data).tag.value
        ELSE /\ tagSource = "vote"
             /\ ~PickTagFromChunks(chunks).raised =>
                   key = PickTagFromChunks(chunks).key
                   /\ value = PickTagFromChunks(chunks).value
             /\ PickTagFromChunks(chunks).raised => key = None /\ value = None

\* the LLM's tag is used although the vote over the evidence elects another
C3_Witness ==
    /\ tagSource = "llm"
    /\ ~PickTagFromChunks(chunks).raised
    /\ <<PickTagFromChunks(chunks).key, PickTagFromChunks(chunks).value>> # <<key, value>>

\* C5: when step 4 runs without an accepted LLM response and no evidence
\* item carries both a key and a value, run_query has returned a failure
\* record with an error message and no handoff collaborator was invoked
C5_NoTagFails ==
    tagSource # "none" /\ ~LlmAccepted /\ NoTaggedEvidence =>
        /\ pc = "done"
        /\ result.returned
        /\ ~result.success
        /\ {"success", "error"} \subseteq result.fields
        /\ result.error # ""
        /\ \A i \in 1..Len(calls) : calls[i] \notin HandoffCalls

\* the vote fails over evidence that is not empty, after a response that
\* parsed and was rejected by the schema gate
C5_Witness ==
    /\ tagSource = "vote"
    /\ pc = "done"
    /\ chunks # <<>>
    /\ NoTaggedEvidence
    /\ llm_res.ok
    /\ ~llm_ok

\* C6: the failure record of a failed tag resolution reports the resolved
\* place and the query
C6_FailureReportsPlace ==
    result.returned /\ result.error = "Could not determine OSM tag" =>
        /\ {"query", "place"} \subseteq result.fields
        /\ result.query = query
        /\ result.place = place

\* C7: every run that has called the oracle resolves place and tag, and
\* none ends in an exception raised by the Parse step or by reading a
\* response that failed validation
C7_ParseValidateNeverFatal ==
    oracle.kind # "none" /\ pc \in {"done", "raised"} =>
        placeSource # "none" /\ tagSource # "none" /\ exc \notin {"parse", "assemble"}

\* C8: no exception leaves run_query
C8_NoException == pc # "raised"

-----------------------------------------------------------------------------
(* call_ollama_json and the failures of the request *)

\* the failures of the request the contract names
NamedFailures == {"connection_error", "timeout", "http_error", "request_error"}

\* C11: a call whose request failed (connection refused, timeout, HTTP error
\* status, other request error) has not raised; it returned ok = false, data
\* {} and a non-empty raw that is the diagnostic, not the body of the
\* response: no JSON is recovered, even from a body that is JSON
C11_TransportCaptured ==
    pcCall = "returned" /\ request.kind \in NamedFailures =>
        /\ ~reply.raised
        /\ reply.res.ok = FALSE
        /\ reply.res.data = EmptyDict
        /\ reply.res.raw # <<>>
        /\ reply.res.raw # request.content
        /\ reply.res.tier = 0

\* an error response whose body alone would have parsed
C11_Witness ==
    /\ pcCall = "returned"
    /\ request.kind = "http_error"
    /\ ParseJsonFromContent(request.content).ok
    /\ ~reply.res.ok

-----------------------------------------------------------------------------
(* validate_llm_response *)

\* two objects with the same members but, at most, the place
SameButPlace(d1, d2) ==
    /\ d1.t = "dict" /\ d2.t = "dict"
    /\ Members(d1).tag = Members(d2).tag
    /\ Members(d1).confidence = Members(d2).confidence
    /\ Members(d1).explanation = Members(d2).explanation

\* the examples of the contract: valid without a place; invalid without a
\* value, with no member, with an empty key
ValidateExamples ==
    /\ argData = Dict(<<"tag:{key:amenity,value:cafe}">>) => valid
    /\ argData = Dict(<<"tag:{key:amenity}">>) => ~valid
    /\ argData = EmptyDict => ~valid
    /\ argData = Dict(<<"tag:{key:<empty>,value:cafe}">>) => ~valid

\* C12: validate_llm_response(data) is true iff data is a mapping whose tag
\* is a mapping with non-empty text key and value, and every object that
\* differs from data in its place alone gets the same answer
C12_ValidateIffSchema ==
    pcValidate = "returned" =>
        /\ valid = SchemaValid(argData)
        /\ \A d2 \in ValidateInputs :
               SameButPlace(argData, d2) => ValidateLlmResponse(d2) = valid
        /\ ValidateExamples

\* a valid object whose place is a number
C12_Witness ==
    /\ pcValidate = "returned"
    /\ valid
    /\ IsDict(argData)
    /\ Members(argData).place = Num(<<"42">>)

-----------------------------------------------------------------------------
(* FaissRetriever.retrieve *)

\* the ranks of the search result whose position is one of the corpus
InRange == {r \in 1..Len(searchHits) :
               searchHits[r].idx >= 0 /\ searchHits[r].idx < Len(selfMeta)}

\* how many of the ranks up to r are in range
Place(r) == Cardinality({q \in InRange : q <= r})

\* C14: retrieve returns at most k items, in non-increasing order of score,
\* and two items stand in the order of the hits they were made of
C14_Ordered ==
    pcRetrieve = "returned" =>
        /\ Len(results) <= argK
        /\ \A i, j \in 1..Len(results) : i < j => results[i].score >= results[j].score
        /\ \A r1, r2 \in InRange :
               r1 < r2 => /\ Place(r1) < Place(r2)
                          /\ Place(r2) <= Len(results)
                          /\ results[Place(r1)].score = searchHits[r1].score
                          /\ results[Place(r2)].score = searchHits[r2].score

\* a hit out of range skipped between two hits of different scores
C14_Witness ==
    /\ pcRetrieve = "returned"
    /\ Len(results) = 2
    /\ results[1].score > results[2].score
    /\ argK = 3
    /\ 2 \notin InRange

\* C15: the result is made of exactly the hits in range, each with the key
\* and value of the corpus entry at its position and the score at its rank;
\* no hit in range gives the empty list
C15_SkipsOutOfRange ==
    pcRetrieve = "returned" =>
        /\ Len(results) = Cardinality(InRange)
        /\ \A r \in InRange :
               /\ results[Place(r)].score = searchHits[r].score
               /\ results[Place(r)].key = DictGet(selfMeta[searchHits[r].idx + 1].key)
               /\ results[Place(r)].value = DictGet(selfMeta[searchHits[r].idx + 1].value)
        /\ (selfMeta = <<>> => results = <<>>)

\* a hit kept after a skipped hit of another score
C15_Witness ==
    /\ pcRetrieve = "returned"
    /\ 1 \notin InRange
    /\ 2 \in InRange
    /\ searchHits[1].score # searchHits[2].score
    /\ searchHits[1].idx >= Len(selfMeta)

-----------------------------------------------------------------------------
(* Two executions of run_query side by side, from step 6 on: each has its  *)
(* place and tag resolved and its place geocoded, and they write into the  *)
(* one output directory.  A file holds what it was last written with.      *)

Procs == {1, 2}

\* text.lower() and the removal of the marks of NFKD, word by word
SlugWord(w) ==
    CASE w = "Lund" -> "lund"
      [] w = "Malmo" -> "malmo"
      [] w = "Find" -> "find"
      [] w = "IN" -> "in"
      [] OTHER -> w

RECURSIVE SlugJoin(_)
SlugJoin(ws) ==
    IF Len(ws) = 1 THEN SlugWord(ws[1])
    ELSE SlugWord(ws[1]) \o "_" \o SlugJoin(Tail(ws))

\* safe_slug of a text: runs of other characters become "_", those at the
\* ends are dropped, "unknown" if nothing is left
SafeSlug(p) ==
    LET ws == SelectSeq(p.v, LAMBDA tok : ~IsBlank(tok)) IN
    IF ws = <<>> THEN "unknown" ELSE SlugJoin(ws)

\* sub_pbf = OUTPUT_DIR / f"sub_{place_slug}.osm.pbf"
SubPbf(p) == "output/sub_" \o SafeSlug(p) \o ".osm.pbf"

OUTPUT_GEOJSON == "output/output.geojson"

NoFile == [kind |-> "none", of |-> <<>>]

\* what osmium extract writes: the part of the country inside the bounding
\* box of the place
Extract(p) == [kind |-> "pbf", of |-> <<p>>]

\* the nodes tagged k = val of an extract, as handler.rows and as the
\* FeatureCollection written
Nodes(pbf, k, val) == [kind |-> "nodes", of |-> pbf.of \o <<k, val>>]

NoRows == [kind |-> "none", of |-> <<>>]

Resolved(p, k, val) == [place |-> p, key |-> k, value |-> val]

\* what steps 3 to 5 hand to step 6
HandoffInputs ==
    {Resolved(p, tg[1], tg[2]) :
        p \in {Malmo, DEFAULT_PLACE}, tg \in {<<Amenity, Cafe>>, <<Highway, BusStop>>}}

HandoffPaths == {SubPbf(h.place) : h \in HandoffInputs} \cup {OUTPUT_GEOJSON}

\* the dict returned, with what count was counted of
HandoffRecord(ok, h, n, path, err) ==
    [returned |-> TRUE, success |-> ok, place |-> h.place, chosen_tag |-> <<h.key, h.value>>,
     count |-> n, geojson_path |-> path, error |-> err]

NotReturned ==
    [returned |-> FALSE, success |-> FALSE, place |-> None, chosen_tag |-> <<None, None>>,
     count |-> NoRows, geojson_path |-> "", error |-> ""]

InitShared ==
    /\ files = [f \in HandoffPaths |-> NoFile]
    /\ procPc = [p \in Procs |-> "extract_bbox"]
    /\ resolved \in [Procs -> HandoffInputs]
    /\ rows = [p \in Procs |-> NoRows]
    /\ procResult = [p \in Procs |-> NotReturned]
    /\ ParseIdle /\ VoteIdle /\ RunIdle
    /\ CallIdle /\ ValidateIdle /\ RetrieveIdle /\ HeuristicIdle

otherVars ==
    <<parseVars, voteVars, runVars, callVars, validateVars, retrieveVars, heuristicVars>>

\* step 6 of execution p, osmium_extract_bbox raises
ProcExtractBBoxFails(p) ==
    /\ procPc[p] = "extract_bbox"
    /\ procPc' = [procPc EXCEPT ![p] = "done"]
    /\ procResult' = [procResult EXCEPT
                         ![p] = HandoffRecord(FALSE, resolved[p], NoRows, "",
                                              "OSM extraction failed")]
    /\ UNCHANGED <<files, resolved, rows, otherVars>>

\* step 6 of execution p: osmium writes sub_pbf, over the file that is there
ProcExtractBBox(p) ==
    /\ procPc[p] = "extract_bbox"
    /\ files' = [files EXCEPT ![SubPbf(resolved[p].place)] = Extract(resolved[p].place)]
    /\ procPc' = [procPc EXCEPT ![p] = "extract_nodes"]
    /\ UNCHANGED <<resolved, rows, procResult, otherVars>>

\* step 7 of execution p, extract_nodes_to_geojson raises
ProcExtractNodesFails(p) ==
    /\ procPc[p] = "extract_nodes"
    /\ procPc' = [procPc EXCEPT ![p] = "done"]
    /\ procResult' = [procResult EXCEPT
                         ![p] = HandoffRecord(FALSE, resolved[p], NoRows, "",
                                              "Node extraction failed")]
    /\ UNCHANGED <<files, resolved, rows, otherVars>>

\* step 7 of execution p: sub_pbf is read, the nodes are written to
\* OUTPUT_GEOJSON and returned
ProcExtractNodes(p) ==
    /\ procPc[p] = "extract_nodes"
    /\ files[SubPbf(resolved[p].place)] # NoFile
    /\ LET found == Nodes(files[SubPbf(resolved[p].place)], resolved[p].key,
                          resolved[p].value)
       IN /\ rows' = [rows EXCEPT ![p] = found]
          /\ files' = [files EXCEPT ![OUTPUT_GEOJSON] = found]
    /\ procPc' = [procPc EXCEPT ![p] = "assemble"]
    /\ UNCHANGED <<resolved, procResult, otherVars>>

\* lines 180-193 of execution p: count = len(rows), geojson_path =
\* str(OUTPUT_GEOJSON)
ProcAssemble(p) ==
    /\ procPc[p] = "assemble"
    /\ procResult' = [procResult EXCEPT
                         ![p] = HandoffRecord(TRUE, resolved[p], rows[p], OUTPUT_GEOJSON, "")]
    /\ procPc' = [procPc EXCEPT ![p] = "done"]
    /\ UNCHANGED <<files, resolved, rows, otherVars>>

NextShared ==
    \E p \in Procs :
        \/ ProcExtractBBoxFails(p)
        \/ ProcExtractBBox(p)
        \/ ProcExtractNodesFails(p)
        \/ ProcExtractNodes(p)
        \/ ProcAssemble(p)

SpecShared == InitShared /\ [][NextShared]_vars

-----------------------------------------------------------------------------
(* run_query: failures of the collaborators *)

\* the invocation of the stage raised
Failed(stage) ==
    \E i \in 1..Len(calls) : calls[i] = stage /\ outcomes[i] = "raised"

Invoked(stage) == \E i \in 1..Len(calls) : calls[i] = stage

\* C16: when retrieval raised, run_query has returned a failure record with
\* the query and an error message, and retrieval is all it invoked
C16_RetrieveFailureFatal ==
    Failed("retrieve") =>
        /\ pc = "done"
        /\ result.returned
        /\ ~result.success
        /\ {"query", "error", "success"} \subseteq result.fields
        /\ result.query = query
        /\ result.error # ""
        /\ calls = <<"retrieve">>
        /\ ~Invoked("oracle") /\ ~Invoked("geocode")
        /\ ~Invoked("extract_bbox") /\ ~Invoked("extract_nodes")

C16_Witness == Failed("retrieve") /\ pc = "done" /\ result.error = "RAG retrieval failed"

\* the three stages of the handoff, each with the cause its failure reports
HandoffStages ==
    {<<"geocode", "Geocoding failed">>, <<"extract_bbox", "OSM extraction failed">>,
     <<"extract_nodes", "Node extraction failed">>}

\* C17: when a handoff collaborator raised, the record returned names the
\* stage and carries the query, the resolved place and the resolved tag
C17_HandoffFailureReportsState ==
    \A st \in HandoffStages :
        Failed(st[1]) =>
            /\ result.returned /\ ~result.success
            /\ result.error = st[2]
            /\ "query" \in result.fields /\ result.query = query
            /\ "place" \in result.fields /\ result.place = place
            /\ "chosen_tag" \in result.fields /\ result.chosen_tag = <<key, value>>

AllStages == <<"retrieve", "oracle", "geocode", "extract_bbox", "extract_nodes">>

\* C18: a record with success = true is returned only after every stage was
\* invoked and none raised, place and tag resolved, and carries place, tag,
\* bounding box and count; every other record has success = false and an
\* error that is not empty; no record with success = true after a failure
C18_NoPartialSuccess ==
    result.returned =>
        /\ result.success =>
               /\ calls = AllStages
               /\ \A i \in 1..Len(outcomes) : outcomes[i] = "ok"
               /\ placeSource # "none" /\ HasValue(place) /\ result.place = place
               /\ tagSource # "none" /\ HasValue(key) /\ HasValue(value)
               /\ result.chosen_tag = <<key, value>>
               /\ {"place", "chosen_tag", "bbox", "count"} \subseteq result.fields
        /\ ~result.success => "error" \in result.fields /\ result.error # ""
        /\ (\E st \in {"retrieve", "geocode", "extract_bbox", "extract_nodes"} : Failed(st))
               => ~result.success
        /\ (tagSource = "vote" /\ ~HasValue(key)) => ~result.success

\* a success with the oracle down: place by default, tag by vote
C18_Witness ==
    /\ result.returned /\ result.success
    /\ oracle.kind = "timeout"
    /\ placeSource = "default"
    /\ tagSource = "vote"

-----------------------------------------------------------------------------
(* run_query: the fields of the response that advise *)

\* C13: the second run of a pair, which differs from the first in the
\* confidence and explanation of the oracle response at most, resolves the
\* same place and tag from the same sources, and ends as the first did:
\* same collaborators invoked in the same order, same success or failure,
\* same error, same exception
C13_AdvisoryIgnored ==
    round = 2 =>
        /\ pc \in {"tag", "geocode", "extract_bbox", "extract_nodes", "assemble", "done",
                   "raised"} /\ placeSource # "none" =>
               place = first.place /\ placeSource = first.placeSource /\ llm_ok = first.llm_ok
        /\ pc \in {"done", "raised"} =>
               /\ <<key, value>> = first.chosen_tag
               /\ tagSource = first.tagSource
               /\ calls = first.calls
               /\ outcomes = first.outcomes
               /\ pc = first.pc
               /\ exc = first.exc
               /\ result.returned = first.result.returned
               /\ result.success = first.result.success
               /\ result.error = first.result.error

\* a second run over, whose oracle response had another explanation and
\* a confidence of another type than the first, place and tag from the oracle
C13_Witness ==
    /\ round = 2
    /\ pc = "done"
    /\ result.success
    /\ placeSource = "llm"
    /\ tagSource = "llm"
    /\ \E i \in 1..Len(oracle.content) :
          /\ oracle.content[i] \in BodyTokens
          /\ first.oracle.content[i] \in BodyTokens
          /\ BodyTable[oracle.content[i]].confidence = Str(<<"high">>)
          /\ BodyTable[first.oracle.content[i]].confidence = Num(<<"0.9">>)
          /\ BodyTable[oracle.content[i]].explanation
                 # BodyTable[first.oracle.content[i]].explanation

-----------------------------------------------------------------------------
(* simple_place_heuristic *)

\* the word in, in either case
InWords == {"in", "IN"}

\* the words in, from, at, near
PlaceWords == InWords \cup {"from", "at", "near"}

\* the text has the word
Contains(x, w) == x.t = "str" /\ \E i \in 1..Len(x.v) : x.v[i] = w

\* C19: of a query in which the word after "in" is followed by a further
\* phrase (near, at or from and more words), as in "cafes in Malmo near the
\* station", the heuristic returns neither that word nor a span that has it
C19_NoMidSentenceMatch ==
    pcHeuristic = "returned" =>
        \A i \in 1..Len(utterance) :
            (/\ utterance[i] \in InWords
             /\ i + 6 <= Len(utterance)
             /\ IsBlank(utterance[i + 1])
             /\ ~IsBlank(utterance[i + 2])
             /\ IsBlank(utterance[i + 3])
             /\ utterance[i + 4] \in {"near", "at", "from"}
             /\ IsBlank(utterance[i + 5]))
            => ~Contains(span, utterance[i + 2])

\* the query, trimmed, ends with one of the four words, blanks, and a run
\* of two or more letters, hyphens and blanks
EndsWithPlacePhrase(q) ==
    \E i \in 1..(Len(q) - 2) :
        /\ q[i] \in PlaceWords
        /\ IsBlank(q[i + 1])
        /\ \A j \in (i + 2)..Len(q) : InClass(q[j])
        /\ CharCount(SubSeq(q, i + 2, Len(q))) >= 2

\* C20: the heuristic returns a span only for a query that ends with in,
\* from, at or near, as a word of its own, and a run of letters, hyphens and
\* blanks; for a query without any of the four words it returns no match;
\* for "bus stops near Lund" it returns "Lund", for "show bus stops" nothing
C20_TrailingPhraseOnly ==
    pcHeuristic = "returned" =>
        /\ span # None => EndsWithPlacePhrase(Strip(utterance))
        /\ (\A i \in 1..Len(utterance) : utterance[i] \notin PlaceWords) => span = None
        /\ utterance = Sentence(<<"bus", "stops", "near", "Lund">>) => span = Str(<<"Lund">>)
        /\ utterance = Sentence(<<"show", "bus", "stops">>) => span = None

-----------------------------------------------------------------------------
(* run_query: two executions and the output directory *)

\* the nodes of the own place with the own tag
OwnNodes(p) == Nodes(Extract(resolved[p].place), resolved[p].key, resolved[p].value)

\* C21: in every interleaving of two executions, one after the other
\* included, the count of a successful result was counted of the nodes of
\* its own place and tag, and the file at its geojson_path holds these nodes
C21_QueriesIndependent ==
    \A p \in DOMAIN procResult :
        procResult[p].returned /\ procResult[p].success =>
            /\ procResult[p].count = OwnNodes(p)
            /\ files[procResult[p].geojson_path] = OwnNodes(p)

-----------------------------------------------------------------------------
(* run_query with the oracle unreachable *)

\* the degraded scenario: the oracle call failed, the query is "Find all
\* cafes in Malmo", the top-ranked item is tagged amenity=cafe, and step 4
\* has run
DegradedScenario ==
    /\ oracle.kind \in TransportFailures
    /\ query = Sentence(<<"Find", "all", "cafes", "in", "Malmo">>)
    /\ chunks # <<>>
    /\ chunks[1].key = Amenity /\ chunks[1].value = Cafe
    /\ tagSource # "none"

\* place by the heuristic, tag amenity=cafe by the vote, no failure
ResolvedDegraded ==
    /\ place = Malmo /\ placeSource = "heuristic"
    /\ key = Amenity /\ value = Cafe /\ tagSource = "vote"
    /\ result.error # "Could not determine OSM tag"

\* C22 as stated: whatever follows the top-ranked item tagged amenity=cafe,
\* the degraded scenario resolves Malmo and amenity=cafe
C22_TopRankedWins == DegradedScenario => ResolvedDegraded

\* C22: in the degraded scenario with no tag of a larger accumulated score
\* than amenity=cafe in the evidence, place is Malmo by the heuristic and
\* the tag amenity=cafe by the vote, and resolution does not fail
C22_DegradedHeaviest ==
    (/\ DegradedScenario
     /\ \A pr \in PairsPresent(chunks) :
            Weight(chunks, pr) <= Weight(chunks, <<Amenity, Cafe>>))
    => ResolvedDegraded

\* the scenario with another tag in the evidence, of the same accumulated
\* score as amenity=cafe
C22_Witness ==
    /\ DegradedScenario
    /\ pc = "done" /\ result.success
    /\ key = Amenity /\ value = Cafe
    /\ Weight(chunks, <<Highway, BusStop>>) = Weight(chunks, <<Amenity, Cafe>>)

-----------------------------------------------------------------------------
(* run_query: the order of the invocations *)

\* C23: the collaborators invoked so far are the first ones of retrieve,
\* oracle, geocode, extract_bbox, extract_nodes, in this order and each
\* once; every invocation but the last has ended without raising, and the
\* last has ended too; geocode is invoked only with place and tag
\* resolved; after a record with success = false or an exception the run
\* is over
C23_CallOrder ==
    /\ Len(calls) <= Len(AllStages)
    /\ \A i \in 1..Len(calls) : calls[i] = AllStages[i]
    /\ Len(outcomes) = Len(calls)
    /\ \A i \in 1..(Len(calls) - 1) : outcomes[i] = "ok"
    /\ Invoked("geocode") =>
           /\ placeSource # "none" /\ HasValue(place)
           /\ tagSource # "none" /\ HasValue(key) /\ HasValue(value)
    /\ (\E st \in DOMAIN AllStages : Failed(AllStages[st])) => pc \in {"done", "raised"}
    /\ result.returned => pc = "done"
    /\ result.error = "Could not determine OSM tag" => calls = <<"retrieve", "oracle">>

\* a run through all five collaborators after an oracle call that failed
C23_Witness ==
    /\ oracle.kind = "timeout"
    /\ calls = AllStages
    /\ pc = "done"
    /\ result.success

-----------------------------------------------------------------------------
(* pick_tag_from_chunks: ties *)

\* the position of the first item that carries the pair in full
FirstSeen(chs, pr) ==
    Min({i \in 1..Len(chs) : <<chs[i].key, chs[i].value>> = pr})

\* the pairs of the largest accumulated weight
Heaviest(chs) ==
    {pr \in PairsPresent(chs) :
        \A other \in PairsPresent(chs) : Weight(chs, other) <= Weight(chs, pr)}

\* C24: of the pairs of the largest accumulated weight the one returned is
\* the one seen first in the list, and the call on the same list gives the
\* same pair again
C24_FirstSeenWins ==
    pcVote = "returned" /\ ~picked.raised =>
        /\ <<picked.key, picked.value>> \in Heaviest(evidence)
        /\ \A pr \in Heaviest(evidence) :
               FirstSeen(evidence, <<picked.key, picked.value>>) <= FirstSeen(evidence, pr)
        /\ PickTagFromChunks(evidence) = picked

\* two pairs tie, and the one returned is not the one seen last
C24_Witness ==
    /\ pcVote = "returned"
    /\ ~picked.raised
    /\ Cardinality(Heaviest(evidence)) = 2
    /\ \E pr \in Heaviest(evidence) :
          FirstSeen(evidence, <<picked.key, picked.value>>) < FirstSeen(evidence, pr)

====
